---- MODULE Spec2Model ----
(***************************************************************************)
(* HubSpot image downloader back end: src/api/index.py (the serverless     *)
(* CSV deployment) and src/app.py (the pandas deployment with the          *)
(* streaming and the write-to-directory pipelines).                        *)
(*                                                                         *)
(* Text is modelled as a sequence of tokens: a token is one character      *)
(* (" ", "_", ".", ",", "/") or one word that the code treats as a unit    *)
(* ("professional", "but ideally", "csv", "u", ...).                       *)
(***************************************************************************)
EXTENDS Integers, Sequences, FiniteSets, TLC

(* ------------------------------------------------------------------ *)
(* Bounds of the model                                                  *)
(* ------------------------------------------------------------------ *)
MaxRows == 2
MaxHeader == 5
MaxRequests == 3

(* ------------------------------------------------------------------ *)
(* Text helpers                                                         *)
(* ------------------------------------------------------------------ *)
Whitespace == {" "}
PathSeps == {"/"}
\* characters outside [A-Za-z0-9_.-], which secure_filename deletes
Illegal == {",", "?"}

RECURSIVE LStrip(_, _)
LStrip(s, chars) ==
    IF s # << >> /\ Head(s) \in chars THEN LStrip(Tail(s), chars) ELSE s

RECURSIVE RStrip(_, _)
RStrip(s, chars) ==
    IF s # << >> /\ s[Len(s)] \in chars
    THEN RStrip(SubSeq(s, 1, Len(s) - 1), chars) ELSE s

\* str.strip(): leading and trailing whitespace removed
Strip(s) == RStrip(LStrip(s, Whitespace), Whitespace)

\* str.endswith / str.startswith for a one-token word
EndsWith(s, w) == s # << >> /\ s[Len(s)] = w
StartsWith(s, w) == s # << >> /\ Head(s) = w

RECURSIVE Replace(_, _, _)
Replace(s, from, to) ==
    IF s = << >> THEN << >>
    ELSE <<(IF Head(s) \in from THEN to ELSE Head(s))>> \o Replace(Tail(s), from, to)

\* "_".join(s.split()): outer whitespace dropped, inner runs become one "_"
RECURSIVE JoinRuns(_)
JoinRuns(s) ==
    IF s = << >> THEN << >>
    ELSE IF Head(s) \in Whitespace
         THEN <<"_">> \o JoinRuns(LStrip(s, Whitespace))
         ELSE <<Head(s)>> \o JoinRuns(Tail(s))

JoinSplit(s) == JoinRuns(Strip(s))

RECURSIVE Remove(_, _)
Remove(s, chars) ==
    IF s = << >> THEN << >>
    ELSE (IF Head(s) \in chars THEN << >> ELSE <<Head(s)>>) \o Remove(Tail(s), chars)

\* werkzeug.utils.secure_filename
secure_filename(name) ==
    LET spaced == Replace(name, PathSeps, " ")
        joined == JoinSplit(spaced)
        ascii == Remove(joined, Illegal)
    IN RStrip(LStrip(ascii, {".", "_"}), {".", "_"})

\* str.lower() on the tokens that have an upper-case form
Lower(s) == [i \in 1..Len(s) |-> IF s[i] = "CSV" THEN "csv" ELSE s[i]]

\* position of the last "." that some non-dot token precedes, 0 when none
RECURSIVE LastDot(_, _)
LastDot(s, i) ==
    IF i <= 1 THEN 0
    ELSE IF s[i] = "." /\ (\E j \in 1..(i - 1) : s[j] # ".") THEN i
    ELSE LastDot(s, i - 1)

\* os.path.splitext(name)[1]
SplitExt(s) ==
    LET d == LastDot(s, Len(s)) IN IF d = 0 THEN << >> ELSE SubSeq(s, d, Len(s))

\* str(n).zfill(3)
DigitChar == <<"0", "1", "2", "3", "4", "5", "6", "7", "8", "9">>

RECURSIVE Digits(_)
Digits(n) ==
    IF n < 10 THEN <<DigitChar[n + 1]>>
    ELSE Digits(n \div 10) \o <<DigitChar[(n % 10) + 1]>>

ZFillWidth == 3

RECURSIVE ZFill(_, _)
ZFill(d, w) == IF Len(d) >= w THEN d ELSE ZFill(<<"0">> \o d, w)

SeqNo(n) == ZFill(Digits(n), ZFillWidth)

Take(s, n) == SubSeq(s, 1, IF Len(s) < n THEN Len(s) ELSE n)


\* list.index(x): position of the first occurrence (1-based here), 0 when absent
RECURSIVE IndexFrom(_, _, _)
IndexFrom(s, v, i) ==
    IF i > Len(s) THEN 0 ELSE IF s[i] = v THEN i ELSE IndexFrom(s, v, i + 1)

IndexOf(s, v) == IndexFrom(s, v, 1)

Contains(s, v) == \E i \in 1..Len(s) : s[i] = v

RECURSIVE SeqsUpTo(_, _)
SeqsUpTo(S, n) ==
    IF n = 0 THEN {<< >>}
    ELSE LET shorter == SeqsUpTo(S, n - 1)
         IN shorter \cup {Append(s, v) : s \in {t \in shorter : Len(t) = n - 1}, v \in S}

(* ------------------------------------------------------------------ *)
(* Server state, client requests and the environment                    *)
(* ------------------------------------------------------------------ *)
VARIABLES
    impl,                  \* "api": src/api/index.py runs; "app": src/app.py runs
    files,                 \* the files a client may send
    selections,            \* the column selections a client may send
    uploaded_files,        \* the upload registry: sanitized filename -> stored table
    uploadLog,             \* history of /upload requests with their outcome
    budget,                \* client requests still to come
    pc,                    \* position of the pipeline run
    req,                   \* the request the run serves
    tbl,                   \* the run's table: [columns, data]
    ci,                    \* position in selected_columns
    ri,                    \* position in the column's row iteration
    count,                 \* the sequence counter
    total_count,           \* the streaming run's announced total
    successful_downloads,  \* delivered images of the run
    errors,                \* error messages of the run
    events,                \* server-sent events emitted by the run
    response,              \* final HTTP response of the run
    fetchLog,              \* calls of download_file_from_hubspot, in order, with how each ended
    pending,               \* the fetch call in flight, if any
    fs_dirs,               \* directories created on disk
    fs_files,              \* files written on disk
    fetcher,               \* one call of download_file_from_hubspot, step by step
    reader,                \* a request handler reading the registry, statement by statement
    page                   \* the /get-images requests of one paging client

vars == <<impl, files, selections, uploaded_files, uploadLog, budget, pc, req, tbl, ci, ri,
          count, total_count, successful_downloads, errors, events, response,
          fetchLog, pending, fs_dirs, fs_files, fetcher, reader, page>>

None == <<"None">>
\* pandas' missing value
NaN == <<"NaN">>

NoResponse == [kind |-> "none"]
NoRequest == [endpoint |-> "none"]
NoCall == [pc |-> "idle"]
NoReader == [pc |-> "idle"]
NoPage == [pc |-> "idle"]
NoTable == [columns |-> << >>, data |-> << >>]

(* ------------------------------------------------------------------ *)
(* /upload                                                              *)
(* ------------------------------------------------------------------ *)
\* header cells, trimmed
StripAll(columns) == [i \in 1..Len(columns) |-> Strip(columns[i])]

SplitLooking(columns, i) ==
    /\ i < Len(columns)
    /\ EndsWith(columns[i], "professional")
    /\ StartsWith(columns[i + 1], "but ideally")

RECURSIVE Reconstruct(_, _)
Reconstruct(columns, i) ==
    IF i > Len(columns) THEN << >>
    ELSE IF SplitLooking(columns, i)
         THEN <<columns[i] \o <<",", " ">> \o columns[i + 1]>> \o Reconstruct(columns, i + 2)
         ELSE <<columns[i]>> \o Reconstruct(columns, i + 1)

ExpectedColumns == 4

\* mutant: the reconstruction runs on header rows of any length
AlwaysReconstruct(columns) == Len(columns) >= 0

NeedsReconstruction(columns) == Len(columns) > ExpectedColumns

\* the column names /upload derives from the first CSV record
HeaderColumns(header) ==
    LET columns == StripAll(header)
    IN IF NeedsReconstruction(columns) THEN Reconstruct(columns, 1) ELSE columns

\* pandas.read_csv / read_excel: empty and absent cells become NaN
ReadFrame(rows) ==
    LET header == rows[1]
    IN [columns |-> header,
        data |-> [r \in 1..(Len(rows) - 1) |->
                    [c \in 1..Len(header) |->
                        IF c <= Len(rows[r + 1]) /\ rows[r + 1][c] # << >>
                        THEN rows[r + 1][c] ELSE NaN]]]

RegistryKey(f) == secure_filename(f.name)

Extension(f) == Lower(SplitExt(RegistryKey(f)))

Readable(f) == f.content.kind = "rows" /\ f.content.rows # << >>

\* whether /upload ends by storing the parsed file
UploadStores(f) ==
    /\ f.name # << >>
    /\ IF impl = "api"
       THEN Extension(f) = <<".", "csv">>
       ELSE Extension(f) \in {<<".", "csv">>, <<".", "xls">>, <<".", "xlsx">>}
    /\ Readable(f)

UploadStatus(f) ==
    IF f.name = << >> THEN 400
    ELSE IF impl = "api"
    THEN (IF Extension(f) # <<".", "csv">> THEN 400
          ELSE IF f.content.kind = "undecodable" THEN 500
          ELSE IF f.content.rows = << >> THEN 400
          ELSE 200)
    ELSE (IF Extension(f) \notin {<<".", "csv">>, <<".", "xls">>, <<".", "xlsx">>} THEN 400
          ELSE IF ~Readable(f) THEN 500
          ELSE 200)

StoredEntry(f) ==
    IF impl = "api"
    THEN [rows |-> f.content.rows, columns |-> HeaderColumns(f.content.rows[1])]
    ELSE [dataframe |-> ReadFrame(f.content.rows)]

\* mutant: the registry is rebound to a mapping holding the new entry alone
PutAlone(registry, key, entry) == [k \in {key} |-> entry]

Put(registry, key, entry) ==
    [k \in DOMAIN registry \cup {key} |-> IF k = key THEN entry ELSE registry[k]]

Stored(registry, f) ==
    IF UploadStores(f) THEN Put(registry, RegistryKey(f), StoredEntry(f)) ELSE registry

UploadFile ==
    /\ budget > 0
    /\ \E f \in files :
        /\ uploaded_files' = Stored(uploaded_files, f)
        /\ uploadLog' = Append(uploadLog, [file |-> f, status |-> UploadStatus(f)])
    /\ budget' = budget - 1
    /\ UNCHANGED <<fetcher, reader, page, impl, files, selections, pc, req, tbl, ci, ri, count, total_count,
                   successful_downloads, errors, events, response, fetchLog,
                   pending, fs_dirs, fs_files>>

(* ------------------------------------------------------------------ *)
(* The pipeline run: /download-images (both deployments) and            *)
(* /download-images-stream (src/app.py)                                 *)
(* ------------------------------------------------------------------ *)
selected_columns == req.columns

Idle == pc \in {"idle", "done"}

\* the table a run works on, from the registry entry
TableOf(entry) ==
    IF impl = "api"
    THEN [columns |-> entry.columns, data |-> Tail(entry.rows)]
    ELSE entry.dataframe

\* `col in columns` / `col in df.columns`
ColumnPresent(t, col) == Contains(t.columns, col)

\* mutant: the rows are visited last to first
ColumnCellsBackwards(t, c) ==
    LET idx == IndexOf(t.columns, c)
        RECURSIVE Visit(_)
        Visit(r) ==
            IF r < 1 THEN << >>
            ELSE LET row == t.data[r]
                     cell == IF Len(row) >= idx THEN row[idx] ELSE None
                 IN IF impl = "app" /\ cell \in {NaN, None}
                    THEN Visit(r - 1)
                    ELSE <<[row |-> r, cell |-> cell]>> \o Visit(r - 1)
    IN Visit(Len(t.data))

\* the cells the row loop of one column visits, in order
\*   api: every data row (rows[1:]); app: df[col].dropna()
ColumnCells(t, col) ==
    LET idx == IndexOf(t.columns, col)
        RECURSIVE Visit(_)
        Visit(r) ==
            IF r > Len(t.data) THEN << >>
            ELSE LET row == t.data[r]
                     cell == IF Len(row) >= idx THEN row[idx] ELSE None
                 IN IF impl = "app" /\ cell \in {NaN, None}
                    THEN Visit(r + 1)
                    ELSE <<[row |-> r, cell |-> cell]>> \o Visit(r + 1)
    IN Visit(1)

\* mutant: the cell is tested without trimming it
QualifiesUntrimmed(cell) == cell \notin {None, NaN} /\ cell # << >>

\* the loop's own test of a cell: absent, missing or blank after trimming is skipped
Qualifies(cell) == cell \notin {None, NaN} /\ Strip(cell) # << >>

RECURSIVE SumOver(_, _, _)
SumOver(t, cols, i) ==
    IF i > Len(cols) THEN 0
    ELSE (IF ColumnPresent(t, cols[i])
          THEN Cardinality({k \in 1..Len(ColumnCells(t, cols[i])) :
                               Qualifies(ColumnCells(t, cols[i])[k].cell)})
          ELSE 0) + SumOver(t, cols, i + 1)

\* api: total_urls, counted before the loop
TotalUrls(t, cols) == SumOver(t, cols, 1)

RECURSIVE SumDropna(_, _, _)
SumDropna(t, cols, i) ==
    IF i > Len(cols) THEN 0
    ELSE (IF ColumnPresent(t, cols[i]) THEN Len(ColumnCells(t, cols[i])) ELSE 0)
         + SumDropna(t, cols, i + 1)

\* stream: total_count, the sum of len(df[col].dropna())
StreamTotal(t, cols) == SumDropna(t, cols, 1)

\* get_extension_from_url
get_extension_from_url(url) ==
    LET ext == LStrip(SplitExt(url), {"."})
    IN IF ext # << >> THEN ext ELSE <<"jpg">>

ImageName(col, n, url) ==
    secure_filename(col) \o <<"_">> \o SeqNo(n) \o <<".">> \o get_extension_from_url(url)

ErrorsShown == 10

DownloadsFolder == "~/Downloads/hubspot-images"

Rejected(msg) == [kind |-> "rejected", status |-> 400, error |-> msg]

TryDifferent ==
    [kind |-> "failure", status |-> 400, success |-> FALSE,
     error |-> "Please try different columns.", total_images |-> 0]

Succeeded ==
    [kind |-> "success", status |-> 200, success |-> TRUE,
     total_images |-> Len(successful_downloads), errors |-> Take(errors, ErrorsShown)]

FileNames == DOMAIN uploaded_files \cup {<<"q", ".", "csv">>, None}
PathChoices == {"", "downloads", "p"}

ResetRun ==
    /\ ci' = 1
    /\ ri' = 1
    /\ count' = 0
    /\ total_count' = 0
    /\ successful_downloads' = << >>
    /\ errors' = << >>
    /\ events' = << >>
    /\ fetchLog' = << >>
    /\ pending' = None

\* the message of the first failing precondition of /download-images, or None
PreconditionError(body, filename, cols, path) ==
    IF ~body THEN <<"No data provided">>
    ELSE IF filename = None \/ cols = << >> THEN <<"Missing required parameters">>
    ELSE IF impl = "app" /\ path = "" THEN <<"Download path is required">>
    ELSE None

\* app: the directory the run writes to
DownloadPath(path) == IF path = "downloads" THEN DownloadsFolder ELSE path

\* directories on disk once the preconditions up to the registry lookup have run
DirsAfterPreconditions(path, made) ==
    IF impl = "app" /\ made THEN fs_dirs \cup {<<DownloadPath(path)>>} ELSE fs_dirs

\* /download-images refused before the pipeline starts
DownloadRejected ==
    /\ Idle /\ budget > 0
    /\ \E body \in BOOLEAN, filename \in FileNames, cols \in selections,
          path \in PathChoices, made \in BOOLEAN :
        LET early == PreconditionError(body, filename, cols, path)
        IN /\ \/ /\ early # None
                 /\ made = FALSE
                 /\ response' = Rejected(early)
                 /\ fs_dirs' = fs_dirs
              \/ /\ early = None
                 /\ impl = "app"
                 /\ made = FALSE
                 /\ response' = Rejected(<<"Cannot create download directory">>)
                 /\ fs_dirs' = fs_dirs
              \/ /\ early = None
                 /\ made = TRUE
                 /\ filename \notin DOMAIN uploaded_files
                 /\ response' = Rejected(<<"File not found. Please upload the file again.">>)
                 /\ fs_dirs' = DirsAfterPreconditions(path, made)
           /\ req' = [endpoint |-> "download", filename |-> filename, columns |-> cols,
                      download_path |-> path]
    /\ pc' = "done"
    /\ budget' = budget - 1
    /\ tbl' = NoTable
    /\ ResetRun
    /\ UNCHANGED <<fetcher, reader, page, impl, files, selections, uploaded_files, uploadLog, fs_files>>

\* api: the run ends before the loop when no cell qualifies
ShortCircuit(t, cols) == impl = "api" /\ TotalUrls(t, cols) = 0

\* /download-images past its preconditions
DownloadBegin ==
    /\ Idle /\ budget > 0
    /\ \E filename \in DOMAIN uploaded_files, cols \in selections \ {<< >>},
          path \in PathChoices :
        LET t == TableOf(uploaded_files[filename])
        IN /\ PreconditionError(TRUE, filename, cols, path) = None
           /\ req' = [endpoint |-> "download", filename |-> filename, columns |-> cols,
                      download_path |-> path]
           /\ tbl' = t
           /\ fs_dirs' = DirsAfterPreconditions(path, TRUE)
           /\ IF ShortCircuit(t, cols)
              THEN pc' = "done" /\ response' = TryDifferent
              ELSE pc' = "col" /\ response' = NoResponse
    /\ budget' = budget - 1
    /\ ResetRun
    /\ UNCHANGED <<fetcher, reader, page, impl, files, selections, uploaded_files, uploadLog, fs_files>>

StreamFormats == {<<".", "csv">>, <<".", "xls">>, <<".", "xlsx">>}

\* the status /download-images-stream refuses a request with, 0 when it accepts it
StreamRefusal(f, hasColumns) ==
    IF f.name = << >> THEN 400
    ELSE IF ~hasColumns THEN 400
    ELSE IF Lower(SplitExt(f.name)) \notin StreamFormats THEN 400
    ELSE IF ~Readable(f) THEN 500
    ELSE 0

StreamRejected ==
    /\ Idle /\ budget > 0
    /\ impl = "app"
    /\ \E f \in files, hasColumns \in BOOLEAN :
        /\ StreamRefusal(f, hasColumns) # 0
        /\ response' = [kind |-> "rejected", status |-> StreamRefusal(f, hasColumns),
                        error |-> <<"stream request refused">>]
        /\ req' = [endpoint |-> "stream", filename |-> f.name, columns |-> << >>,
                   download_path |-> ""]
    /\ pc' = "done"
    /\ budget' = budget - 1
    /\ tbl' = NoTable
    /\ ResetRun
    /\ UNCHANGED <<fetcher, reader, page, impl, files, selections, uploaded_files, uploadLog, fs_dirs, fs_files>>

StartEvent(total) == [type |-> "start", total |-> total]

\* generate_images_stream up to its first yield
StreamBegin ==
    /\ Idle /\ budget > 0
    /\ impl = "app"
    /\ \E f \in files, cols \in selections :
        /\ StreamRefusal(f, TRUE) = 0
        /\ req' = [endpoint |-> "stream", filename |-> f.name, columns |-> cols,
                   download_path |-> ""]
        /\ tbl' = ReadFrame(f.content.rows)
        /\ total_count' = StreamTotal(ReadFrame(f.content.rows), cols)
        /\ events' = <<StartEvent(StreamTotal(ReadFrame(f.content.rows), cols))>>
    /\ pc' = "col"
    /\ budget' = budget - 1
    /\ response' = [kind |-> "stream", status |-> 200]
    /\ ci' = 1 /\ ri' = 1 /\ count' = 0
    /\ successful_downloads' = << >> /\ errors' = << >>
    /\ fetchLog' = << >> /\ pending' = None
    /\ UNCHANGED <<fetcher, reader, page, impl, files, selections, uploaded_files, uploadLog, fs_dirs, fs_files>>

Streaming == req.endpoint = "stream"
ToDisk == req.endpoint = "download" /\ impl = "app"

col == selected_columns[ci]

column_dir == <<DownloadPath(req.download_path), secure_filename(col)>>

ErrorEvent(msg) == [type |-> "error", message |-> msg]

\* mutant: a failure is not reported to the client
EmitUnlessError(ev) ==
    IF Streaming /\ ev.type # "error" THEN Append(events, ev) ELSE events

\* events after one more, on the streaming endpoint only
Emit(ev) == IF Streaming THEN Append(events, ev) ELSE events

NotFound(c) == <<"Column not found in file", c>>

\* the counter a column starts with: api resets it per column, app keeps one per run
CountAtColumn == IF impl = "api" THEN 0 ELSE count

\* mutant: an absent column ends the column loop (break instead of continue)
ColumnAbsentBreaks ==
    /\ pc = "col" /\ ci <= Len(selected_columns)
    /\ ~ColumnPresent(tbl, col)
    /\ errors' = Append(errors, NotFound(col))
    /\ events' = Emit(ErrorEvent(NotFound(col)))
    /\ ci' = Len(selected_columns) + 1
    /\ UNCHANGED <<fetcher, reader, page, impl, files, selections, uploaded_files, uploadLog, budget, pc, req,
                   tbl, ri, count, total_count, successful_downloads, response,
                   fetchLog, pending, fs_dirs, fs_files>>

\* top of the column loop: an absent column is recorded and skipped
ColumnAbsent ==
    /\ pc = "col" /\ ci <= Len(selected_columns)
    /\ ~ColumnPresent(tbl, col)
    /\ errors' = Append(errors, NotFound(col))
    /\ events' = Emit(ErrorEvent(NotFound(col)))
    /\ ci' = ci + 1
    /\ UNCHANGED <<fetcher, reader, page, impl, files, selections, uploaded_files, uploadLog, budget, pc, req,
                   tbl, ri, count, total_count, successful_downloads, response,
                   fetchLog, pending, fs_dirs, fs_files>>

\* top of the column loop, column present: (app, disk) its directory is made
ColumnEnter ==
    /\ pc = "col" /\ ci <= Len(selected_columns)
    /\ ColumnPresent(tbl, col)
    /\ \E made \in BOOLEAN :
        IF ToDisk /\ ~made
        THEN /\ errors' = Append(errors, <<"Cannot create directory for column", col>>)
             /\ ci' = ci + 1
             /\ UNCHANGED <<pc, ri, count, fs_dirs>>
        ELSE /\ made
             /\ fs_dirs' = IF ToDisk THEN fs_dirs \cup {column_dir} ELSE fs_dirs
             /\ pc' = "row"
             /\ ri' = 1
             /\ count' = CountAtColumn
             /\ UNCHANGED <<errors, ci>>
    /\ UNCHANGED <<fetcher, reader, page, impl, files, selections, uploaded_files, uploadLog, budget, req, tbl,
                   total_count, successful_downloads, events, response, fetchLog,
                   pending, fs_files>>

cells == ColumnCells(tbl, col)

\* the row loop is exhausted: next column
ColumnLeave ==
    /\ pc = "row" /\ ri > Len(cells)
    /\ pc' = "col"
    /\ ci' = ci + 1
    /\ UNCHANGED <<fetcher, reader, page, impl, files, selections, uploaded_files, uploadLog, budget, req, tbl,
                   ri, count, total_count, successful_downloads, errors, events,
                   response, fetchLog, pending, fs_dirs, fs_files>>

\* a blank cell: `continue`
RowSkip ==
    /\ pc = "row" /\ ri <= Len(cells)
    /\ ~Qualifies(cells[ri].cell)
    /\ ri' = ri + 1
    /\ UNCHANGED <<fetcher, reader, page, impl, files, selections, uploaded_files, uploadLog, budget, pc, req,
                   tbl, ci, count, total_count, successful_downloads, errors, events,
                   response, fetchLog, pending, fs_dirs, fs_files>>

\* the counter when the fetch is issued: app counts the attempt, api does not
CountAtAttempt == IF impl = "api" THEN count ELSE count + 1

ProgressEvent(n) ==
    [type |-> "progress", current |-> n, total |-> total_count, column |-> col]

\* a qualifying cell: the fetcher is called on its trimmed value
RowFetch ==
    /\ pc = "row" /\ ri <= Len(cells)
    /\ Qualifies(cells[ri].cell)
    /\ count' = CountAtAttempt
    /\ events' = Emit(ProgressEvent(CountAtAttempt))
    /\ fetchLog' = Append(fetchLog, [ci |-> ci, column |-> col, row |-> cells[ri].row,
                                     url |-> Strip(cells[ri].cell),
                                     outcome |-> "pending"])
    /\ pending' = Strip(cells[ri].cell)
    /\ pc' = "fetch"
    /\ UNCHANGED <<fetcher, reader, page, impl, files, selections, uploaded_files, uploadLog, budget, req, tbl,
                   ci, ri, total_count, successful_downloads, errors, response,
                   fs_dirs, fs_files>>

\* what one fetch, and the write of its result, can end with
Outcomes == {"image", "none", "raise"} \cup (IF ToDisk THEN {"unwritable"} ELSE {})

\* the sequence number a delivered image is named with
NumberOnSuccess == IF impl = "api" THEN count + 1 ELSE count

\* mutant: the except branch of app.py does not take the attempt back
CountAfterKeepsRaised(outcome) ==
    IF impl = "api"
    THEN (IF outcome = "image" THEN count + 1 ELSE count)
    ELSE (IF outcome \in {"image", "raise"} THEN count ELSE count - 1)

\* the counter after the fetch returned
CountAfter(outcome) ==
    IF impl = "api"
    THEN (IF outcome = "image" THEN count + 1 ELSE count)
    ELSE (IF outcome = "image" THEN count ELSE count - 1)

FailureMessage(outcome) ==
    IF outcome = "none" THEN <<"Failed to download from", pending>>
    ELSE IF outcome = "unwritable"
    THEN <<"Failed to save", ImageName(col, NumberOnSuccess, pending)>>
    ELSE <<"Error processing", pending>>

Delivered ==
    [column |-> col, filename |-> ImageName(col, NumberOnSuccess, pending)]

ImageEvent ==
    [type |-> "image", column |-> col,
     filename |-> ImageName(col, NumberOnSuccess, pending),
     current |-> count, total |-> total_count]

\* mutant: an exception raised for a cell leaves the loop
AfterCellAborts(outcome) == IF outcome = "raise" THEN "aborted" ELSE "row"

\* where the run stands once a cell is handled: the loop goes on, whatever the outcome
AfterCell(outcome) == "row"

\* download_file_from_hubspot returned (or raised), and the result is handled
FetchReturn ==
    /\ pc = "fetch"
    /\ \E outcome \in Outcomes :
        /\ count' = CountAfter(outcome)
        /\ IF outcome = "image"
           THEN /\ successful_downloads' =
                      IF Streaming THEN successful_downloads
                      ELSE Append(successful_downloads, Delivered)
                /\ events' = Emit(ImageEvent)
                /\ fs_files' = IF ToDisk
                               THEN fs_files \cup {<<column_dir, Delivered.filename>>}
                               ELSE fs_files
                /\ errors' = errors
           ELSE /\ errors' = Append(errors, FailureMessage(outcome))
                /\ events' = Emit(ErrorEvent(FailureMessage(outcome)))
                /\ UNCHANGED <<successful_downloads, fs_files>>
        /\ fetchLog' = [fetchLog EXCEPT ![Len(fetchLog)].outcome = outcome]
        /\ pc' = AfterCell(outcome)
    /\ pending' = None
    /\ ri' = ri + 1
    /\ UNCHANGED <<fetcher, reader, page, impl, files, selections, uploaded_files, uploadLog, budget, req, tbl,
                   ci, total_count, response, fs_dirs>>

CompleteEvent ==
    [type |-> "complete", total_downloaded |-> count,
     errors |-> Take(errors, ErrorsShown)]

\* mutant: a run without images is answered as a success with zero items
FinalResponseGeneric == IF Streaming THEN response ELSE Succeeded

FinalResponse ==
    IF Streaming THEN response
    ELSE IF successful_downloads # << >> THEN Succeeded ELSE TryDifferent

\* after the last column: the response, or the stream's last event
Finish ==
    /\ pc = "col" /\ ci > Len(selected_columns)
    /\ response' = FinalResponse
    /\ events' = Emit(CompleteEvent)
    /\ pc' = "done"
    /\ UNCHANGED <<fetcher, reader, page, impl, files, selections, uploaded_files, uploadLog, budget, req, tbl,
                   ci, ri, count, total_count, successful_downloads, errors, fetchLog,
                   pending, fs_dirs, fs_files>>

(* ------------------------------------------------------------------ *)
(* Inputs and specifications                                            *)
(* ------------------------------------------------------------------ *)
A == <<"a">>
B == <<"b">>
Z == <<"z">>

U == <<"u">>
PaddedU == <<" ", "u", ".", "png">>
Blank == <<" ">>
Empty == << >>

RowShapes == {<<U, Blank>>, <<Empty, PaddedU>>, <<U>>}

Selections == {<<A>>, <<B>>, <<Z>>, <<A, B>>, <<B, A>>, <<Z, A>>, <<A, Z>>, <<A, A>>}

TableName == <<"t", ".", "csv">>

Rows(rows) == [kind |-> "rows", rows |-> rows]

TableFiles ==
    {[name |-> TableName, content |-> Rows(<<<<A, B>>>> \o data)] :
        data \in SeqsUpTo(RowShapes, MaxRows)}

InitRun ==
    /\ pc = "idle"
    /\ req = NoRequest
    /\ tbl = NoTable
    /\ ci = 1 /\ ri = 1 /\ count = 0 /\ total_count = 0
    /\ successful_downloads = << >> /\ errors = << >> /\ events = << >>
    /\ response = NoResponse
    /\ fetchLog = << >> /\ pending = None
    /\ fs_dirs = {} /\ fs_files = {}
    /\ fetcher = NoCall /\ reader = NoReader /\ page = NoPage

\* one uploaded table, one request to come
Init ==
    /\ impl \in {"api", "app"}
    /\ \E f \in TableFiles :
        /\ files = {f}
        /\ uploaded_files = Stored(<< >>, f)
        /\ uploadLog = <<[file |-> f, status |-> UploadStatus(f)]>>
    /\ selections = Selections \cup {<< >>}
    /\ budget = 1
    /\ InitRun

Next ==
    \/ UploadFile
    \/ DownloadRejected
    \/ DownloadBegin
    \/ StreamRejected
    \/ StreamBegin
    \/ ColumnAbsent
    \/ ColumnEnter
    \/ ColumnLeave
    \/ RowSkip
    \/ RowFetch
    \/ FetchReturn
    \/ Finish

Spec == Init /\ [][Next]_vars

(* Uploads and requests in sequence, on small files *)
Undecodable == [kind |-> "undecodable", rows |-> << >>]

RegistryFiles ==
    {[name |-> <<"a", " ", "b", ".", "csv">>, content |-> Rows(<<<<A>>, <<U>>>>)],
     [name |-> <<"a", "_", "b", ".", "csv">>, content |-> Rows(<<<<A>>, <<Blank>>>>)],
     [name |-> <<"a", "_", "b", ".", "csv">>, content |-> Rows(<< >>)],
     [name |-> <<"a", " ", "b", ".", "csv">>, content |-> Undecodable],
     [name |-> <<"c", ".", "CSV">>, content |-> Rows(<<<<A>>, <<U>>>>)],
     [name |-> <<"d", ".", "txt">>, content |-> Rows(<<<<A>>, <<U>>>>)],
     [name |-> <<"e", ".", "xls">>, content |-> Rows(<<<<A>>, <<U>>>>)]}

InitRegistry ==
    /\ impl \in {"api", "app"}
    /\ files = RegistryFiles
    /\ uploaded_files = << >>
    /\ uploadLog = << >>
    /\ selections = {<<A>>, <<Z>>}
    /\ budget = MaxRequests
    /\ InitRun

SpecRegistry == InitRegistry /\ [][Next]_vars

(* /upload applied to one header row *)
HeaderCells ==
    {<<"x">>, <<"x", "professional">>, <<"but ideally", "x">>,
     <<"but ideally", "professional">>, <<"professional", " ">>}

HeaderFiles ==
    {[name |-> TableName, content |-> Rows(<<h>>)] : h \in SeqsUpTo(HeaderCells, MaxHeader)}

InitHeader ==
    /\ impl = "api"
    /\ \E f \in HeaderFiles : files = {f}
    /\ uploaded_files = << >>
    /\ uploadLog = << >>
    /\ selections = {<<A>>}
    /\ budget = 1
    /\ InitRun

SpecHeader == InitHeader /\ [][UploadFile]_vars

(* ------------------------------------------------------------------ *)
(* Vocabulary of the properties                                         *)
(* ------------------------------------------------------------------ *)
\* a run that passed the preconditions of its endpoint
RunOf(endpoint) == req.endpoint = endpoint /\ response.kind # "rejected"

Finished == pc = "done"

EventsOf(type) == {i \in 1..Len(events) : events[i].type = type}

\* the calls of the fetcher that ended with an image delivered
ImageCalls == {i \in 1..Len(fetchLog) : fetchLog[i].outcome = "image"}

\* the k-th smallest element of a finite set of numbers
Nth(S, k) == CHOOSE i \in S : Cardinality({j \in S : j <= i}) = k

\* file names of the images delivered so far, in delivery order
DeliveredNames ==
    IF Streaming
    THEN [k \in 1..Cardinality(EventsOf("image")) |-> events[Nth(EventsOf("image"), k)].filename]
    ELSE [k \in 1..Len(successful_downloads) |-> successful_downloads[k].filename]

\* a qualifying cell, read off the table: column present, cell there and
\* non-blank once trimmed
CellQualifies(t, c, r) ==
    LET idx == IndexOf(t.columns, c)
    IN /\ idx > 0
       /\ idx <= Len(t.data[r])
       /\ t.data[r][idx] # NaN
       /\ \E k \in 1..Len(t.data[r][idx]) : t.data[r][idx][k] \notin Whitespace

QualifyingRows(t, c) == {r \in 1..Len(t.data) : CellQualifies(t, c, r)}

RECURSIVE QualifyingTotal(_, _, _)
QualifyingTotal(t, cols, i) ==
    IF i > Len(cols) THEN 0
    ELSE Cardinality(QualifyingRows(t, cols[i])) + QualifyingTotal(t, cols, i + 1)

Distinct(s) == \A i, j \in 1..Len(s) : s[i] = s[j] => i = j

(* ------------------------------------------------------------------ *)
(* Properties                                                           *)
(* ------------------------------------------------------------------ *)

\* C1: a streaming run emits exactly one 'start', first; 'complete' only as its
\* last event, exactly once when the run has ended; and the total_downloaded of
\* 'complete' is the number of 'image' events of the run.
C1_StreamFraming ==
    RunOf("stream") =>
        /\ events # << >>
        /\ EventsOf("start") = {1}
        /\ \A i \in EventsOf("complete") : i = Len(events) /\ Finished
        /\ Finished =>
            /\ EventsOf("complete") = {Len(events)}
            /\ events[Len(events)].total_downloaded = Cardinality(EventsOf("image"))

C1_Witness ==
    /\ RunOf("stream") /\ Finished
    /\ Cardinality(EventsOf("image")) >= 1
    /\ \E i, j \in 1..Len(fetchLog) :
          fetchLog[i].outcome = "none" /\ fetchLog[j].outcome = "raise"

\* C2: in a download run the images of each selected column, taken in row order,
\* are numbered 001, 002, ... without gaps, counting only the successes of that
\* column: numbering starts again at 001 with every further selected column
\* (stated for selections that name no column twice).
C2_PerColumnNumbering ==
    ((RunOf("download") \/ RunOf("stream")) /\ Distinct(selected_columns)) =>
        /\ Len(DeliveredNames) = Cardinality(ImageCalls)
        /\ \A k \in 1..Len(DeliveredNames) :
              LET call == fetchLog[Nth(ImageCalls, k)]
                  rank == Cardinality({i \in ImageCalls :
                                          /\ i <= Nth(ImageCalls, k)
                                          /\ fetchLog[i].ci = call.ci})
              IN DeliveredNames[k] =
                    secure_filename(call.column) \o <<"_">> \o SeqNo(rank) \o <<".">>
                        \o get_extension_from_url(call.url)

\* C3: a /download-images run over zero qualifying cells never calls the fetcher
\* and ends with the uniform failure {success: false, total_images: 0}.
C3_ZeroQualifying ==
    (RunOf("download") /\ tbl # NoTable /\ QualifyingTotal(tbl, selected_columns, 1) = 0) =>
        /\ fetchLog = << >>
        /\ Finished =>
            /\ response.status = 400
            /\ response.success = FALSE
            /\ response.total_images = 0
            /\ response.error = "Please try different columns."

C3_Witness ==
    /\ RunOf("download") /\ Finished
    /\ QualifyingTotal(tbl, selected_columns, 1) = 0
    /\ Len(tbl.data) >= 2
    /\ \E i \in 1..Len(selected_columns) : ColumnPresent(tbl, selected_columns[i])

\* a selection of two columns, one of the table and one not
OneAbsentOnePresent ==
    /\ Len(selected_columns) = 2
    /\ Cardinality({i \in 1..2 : ColumnPresent(tbl, selected_columns[i])}) = 1

AbsentColumn == selected_columns[CHOOSE i \in 1..2 : ~ColumnPresent(tbl, selected_columns[i])]
PresentColumn == selected_columns[CHOOSE i \in 1..2 : ColumnPresent(tbl, selected_columns[i])]

NotFoundIn(list) == {i \in 1..Len(list) : list[i][1] = "Column not found in file"}

CallsOn(c) == {i \in 1..Len(fetchLog) : fetchLog[i].column = c}

\* every qualifying cell of column c was handed to the fetcher, once each
AllFetched(c) ==
    /\ {fetchLog[i].row : i \in CallsOn(c)} = QualifyingRows(tbl, c)
    /\ Cardinality(CallsOn(c)) = Cardinality(QualifyingRows(tbl, c))

\* C4 as claimed: with one absent and one present column selected, the outcome
\* of a /download-images run lists exactly one "Column '<x>' not found" error, all
\* qualifying cells of the present column were fetched and the successes counted.
C4_Original ==
    (RunOf("download") /\ Finished /\ OneAbsentOnePresent) =>
        /\ "errors" \in DOMAIN response
        /\ Cardinality(NotFoundIn(response.errors)) = 1
        /\ \A i \in NotFoundIn(response.errors) : response.errors[i] = NotFound(AbsentColumn)
        /\ AllFetched(PresentColumn)
        /\ response.total_images = Cardinality(ImageCalls)

\* the run got to its column loop (api leaves before it when no cell qualifies)
ReachedLoop == ~(impl = "api" /\ QualifyingTotal(tbl, selected_columns, 1) = 0)

DirectoryRefused ==
    \E i \in 1..Len(errors) : errors[i][1] = "Cannot create directory for column"

\* C4 amended: the run is not aborted. Once the run is in its column loop, the
\* error list it accumulates holds exactly one "Column '<x>' not found" entry;
\* all qualifying cells of the present column are fetched unless its directory
\* cannot be made; total_images counts the successes; and the response shows
\* the list (its first 10 entries) only when at least one image succeeded.
C4_AbsentColumnSoft ==
    (RunOf("download") /\ Finished /\ OneAbsentOnePresent) =>
        /\ ReachedLoop =>
            /\ Cardinality(NotFoundIn(errors)) = 1
            /\ \A i \in NotFoundIn(errors) : errors[i] = NotFound(AbsentColumn)
        /\ (ReachedLoop /\ ~DirectoryRefused) => AllFetched(PresentColumn)
        /\ response.total_images = Cardinality(ImageCalls)
        /\ ("errors" \in DOMAIN response) <=> (ImageCalls # {})
        /\ ("errors" \in DOMAIN response) => response.errors = Take(errors, ErrorsShown)

C4_Witness ==
    /\ RunOf("download") /\ Finished /\ OneAbsentOnePresent
    /\ selected_columns[1] = Z
    /\ response.kind = "success"
    /\ Cardinality(CallsOn(PresentColumn)) = 2
    /\ NotFoundIn(response.errors) # {}

\* C5: a /download-images request refused on a precondition gets a 4xx answer
\* and has done nothing: no fetch, nothing created on disk, registry as before.
C5_NoPartialWork ==
    (req.endpoint = "download" /\ response.kind = "rejected") =>
        /\ response.status \in 400..499
        /\ fetchLog = << >>
        /\ fs_dirs = {} /\ fs_files = {}
        /\ uploaded_files = Stored(<< >>, uploadLog[1].file)

\* C6: a /download-images run answers success: true exactly when at least one
\* image was delivered; otherwise the uniform failure; total_images on success
\* is the number of delivered images.
C6_SuccessIffDelivered ==
    (RunOf("download") /\ Finished) =>
        /\ response.success <=> (ImageCalls # {})
        /\ ImageCalls = {} =>
              response = [kind |-> "failure", status |-> 400, success |-> FALSE,
                          error |-> "Please try different columns.", total_images |-> 0]
        /\ ImageCalls # {} =>
              /\ response.status = 200
              /\ response.total_images = Cardinality(ImageCalls)

C6_Witness ==
    /\ RunOf("download") /\ Finished
    /\ Len(fetchLog) >= 2
    /\ ImageCalls = {}
    /\ response.success = FALSE

\* C7: the total of the 'start' event is the number of qualifying cells of the
\* selected columns, and so the number of 'progress' events of the finished run.
C7_StartTotal ==
    RunOf("stream") =>
        /\ events[1].total = QualifyingTotal(tbl, selected_columns, 1)
        /\ Finished => events[1].total = Cardinality(EventsOf("progress"))

DeliveredColumns ==
    IF Streaming
    THEN [k \in 1..Cardinality(EventsOf("image")) |-> events[Nth(EventsOf("image"), k)].column]
    ELSE [k \in 1..Len(successful_downloads) |-> successful_downloads[k].column]

\* C8: fetches are issued one at a time, each after the previous one returned,
\* in the order of selected_columns and, within a column, in row order; the
\* delivered results come in that same order.
C8_FetchOrder ==
    (RunOf("download") \/ RunOf("stream")) =>
        /\ \A i \in 1..Len(fetchLog) : i < Len(fetchLog) => fetchLog[i].outcome # "pending"
        /\ (pending # None) <=> (fetchLog # << >> /\ fetchLog[Len(fetchLog)].outcome = "pending")
        /\ \A i \in 1..Len(fetchLog) : fetchLog[i].column = selected_columns[fetchLog[i].ci]
        /\ \A i, j \in 1..Len(fetchLog) :
              i < j => \/ fetchLog[i].ci < fetchLog[j].ci
                       \/ fetchLog[i].ci = fetchLog[j].ci /\ fetchLog[i].row < fetchLog[j].row
        /\ Len(DeliveredColumns) = Cardinality(ImageCalls)
        /\ \A k \in 1..Len(DeliveredColumns) :
              DeliveredColumns[k] = fetchLog[Nth(ImageCalls, k)].column

C8_Witness ==
    /\ Finished
    /\ selected_columns = <<B, A>>
    /\ Len(fetchLog) = 2
    /\ fetchLog[1].column = B /\ fetchLog[1].row = 2
    /\ fetchLog[2].column = A /\ fetchLog[2].row = 1
    /\ DeliveredColumns = <<B, A>>

\* the uploads answered 200
Accepted == {i \in 1..Len(uploadLog) : uploadLog[i].status = 200}

Trimmed(cell) ==
    LET keep == {k \in 1..Len(cell) : cell[k] \notin Whitespace}
    IN IF keep = {} THEN << >>
       ELSE SubSeq(cell, CHOOSE k \in keep : \A m \in keep : k <= m,
                         CHOOSE k \in keep : \A m \in keep : k >= m)

\* the header row of the last upload, each cell trimmed
LastHeader ==
    LET raw == uploadLog[Len(uploadLog)].file.content.rows[1]
    IN [i \in 1..Len(raw) |-> Trimmed(raw[i])]

LastColumns == uploaded_files[secure_filename(uploadLog[Len(uploadLog)].file.name)].columns

\* cells i and i+1 look like one name split at its comma
SplitPair(h, i) ==
    /\ i \in 1..(Len(h) - 1)
    /\ h[i] # << >> /\ h[i][Len(h[i])] = "professional"
    /\ h[i + 1] # << >> /\ h[i + 1][1] = "but ideally"

Joined(h, i) == h[i] \o <<",", " ">> \o h[i + 1]

\* C9 as claimed: whatever the length of the header row, every adjacent pair
\* "...professional" / "but ideally..." is merged into one name joined by ", ",
\* no other pair is merged, and the other names are kept, trimmed, in order.
C9_Original ==
    (uploadLog # << >> /\ Accepted # {} /\ impl = "api") =>
        /\ \A i \in 1..Len(LastHeader) :
              SplitPair(LastHeader, i) => Contains(LastColumns, Joined(LastHeader, i))
        /\ \A k \in 1..Len(LastColumns) :
              \/ Contains(LastHeader, LastColumns[k])
              \/ \E i \in 1..Len(LastHeader) :
                    SplitPair(LastHeader, i) /\ LastColumns[k] = Joined(LastHeader, i)

\* the cells a left-to-right scan starts a column name at: the first cell, and
\* the cell after each name, a name taking two cells when they are a split pair
Width(h, i) == IF SplitPair(h, i) THEN 2 ELSE 1

ScanStarts(h, S) ==
    /\ (Len(h) >= 1) => 1 \in S
    /\ \A i \in S : (i + Width(h, i) <= Len(h)) => (i + Width(h, i)) \in S
    /\ \A j \in S : j = 1 \/ \E i \in S : i + Width(h, i) = j

\* C9 amended: a header row of more than 4 cells is scanned left to right, and a
\* cell not already merged into its left neighbour is merged with its right
\* neighbour exactly when the pair is "...professional" / "but ideally..."; a
\* header row of at most 4 cells is never merged; names are trimmed, in order.
C9_HeaderMerge ==
    (uploadLog # << >> /\ Accepted # {} /\ impl = "api") =>
        IF Len(LastHeader) <= 4
        THEN LastColumns = LastHeader
        ELSE \E S \in SUBSET (1..Len(LastHeader)) :
                /\ ScanStarts(LastHeader, S)
                /\ Len(LastColumns) = Cardinality(S)
                /\ \A k \in 1..Cardinality(S) :
                      LastColumns[k] =
                          IF SplitPair(LastHeader, Nth(S, k))
                          THEN Joined(LastHeader, Nth(S, k))
                          ELSE LastHeader[Nth(S, k)]

C9_Witness ==
    /\ uploadLog # << >> /\ Accepted # {}
    /\ Len(LastHeader) = 5
    /\ SplitPair(LastHeader, 2) /\ SplitPair(LastHeader, 3)
    /\ uploadLog[1].file.content.rows[1][5] = <<"professional", " ">>
    /\ Len(LastColumns) = 4
    /\ LastColumns[2] = Joined(LastHeader, 2)

\* the last accepted upload among those whose file name satisfies P
LastAccepted(P(_)) ==
    LET hits == {i \in Accepted : P(uploadLog[i].file.name)}
    IN CHOOSE i \in hits : \A j \in hits : j <= i

\* the registry entry is the table of file f
HoldsTableOf(entry, f) ==
    IF impl = "api"
    THEN entry.rows = f.content.rows
    ELSE /\ entry.dataframe.columns = f.content.rows[1]
         /\ Len(entry.dataframe.data) = Len(f.content.rows) - 1
         /\ \A r \in 1..Len(entry.dataframe.data) :
               \A c \in 1..Len(f.content.rows[1]) :
                  entry.dataframe.data[r][c] =
                     IF c <= Len(f.content.rows[r + 1]) /\ f.content.rows[r + 1][c] # << >>
                     THEN f.content.rows[r + 1][c] ELSE NaN

\* C10 as claimed: the registry maps each uploaded file name to the table of
\* the most recent accepted upload of that file name.
C10_Original ==
    \A i \in Accepted :
        LET n == uploadLog[i].file.name
            SameName(m) == m = n
        IN /\ n \in DOMAIN uploaded_files
           /\ HoldsTableOf(uploaded_files[n], uploadLog[LastAccepted(SameName)].file)

\* C10 amended: the registry is keyed by the sanitized file name. It holds
\* exactly the sanitized names of the accepted uploads, each with the table of
\* the most recent accepted upload whose name sanitizes to that key; nothing
\* else (a download or streaming request, a refused or failed upload, an upload
\* under another key) removes or changes an entry.
C10_RegistryLatest ==
    /\ DOMAIN uploaded_files = {secure_filename(uploadLog[i].file.name) : i \in Accepted}
    /\ \A key \in DOMAIN uploaded_files :
          LET SameKey(m) == secure_filename(m) = key
          IN HoldsTableOf(uploaded_files[key], uploadLog[LastAccepted(SameKey)].file)

C10_Witness ==
    /\ Len(uploadLog) = 2 /\ Accepted = {1, 2}
    /\ uploadLog[1].file.name # uploadLog[2].file.name
    /\ uploadLog[1].file.content # uploadLog[2].file.content
    /\ Cardinality(DOMAIN uploaded_files) = 1
    /\ RunOf("download") /\ Finished

(* ------------------------------------------------------------------ *)
(* The fetcher: get_file_id_from_url and download_file_from_hubspot     *)
(* ------------------------------------------------------------------ *)
MaxPath == 4

Slash == "/"
Marker == <<"signed-url-redirect">>
Origin == "https://h"
Query == "?sig"
\* a URL urlparse refuses (ValueError)
Malformed == <<"https://[">>

Paths == SeqsUpTo({Slash, "signed-url-redirect", "x"}, MaxPath)

Urls ==
    {pre \o p \o post : pre \in {<< >>, <<Origin>>}, p \in Paths, post \in {<< >>, <<Query>>}}
        \cup {Malformed}

Parses(url) == url # Malformed

\* urlparse(url).path
UrlPath(url) ==
    LET rest == IF StartsWith(url, Origin) THEN Tail(url) ELSE url
    IN  IF EndsWith(rest, Query) THEN Take(rest, Len(rest) - 1) ELSE rest

\* str.split("/"): the text before the first separator, then the split of what follows it
RECURSIVE Split(_)
Split(s) ==
    LET at == IndexOf(s, Slash)
    IN  IF at = 0 THEN <<s>>
        ELSE <<Take(s, at - 1)>> \o Split(SubSeq(s, at + 1, Len(s)))

\* parsed.path.strip("/").split("/")
Parts(url) == Split(RStrip(LStrip(UrlPath(url), {Slash}), {Slash}))

\* the variant that looks for the marker from the end of the path
get_file_id_from_last(url) ==
    LET parts == Parts(url)
        at == {i \in 1..Len(parts) : parts[i] = Marker}
    IN  IF at = {} THEN None
        ELSE LET idx == CHOOSE i \in at : \A j \in at : j <= i
             IN  IF idx + 1 <= Len(parts) THEN parts[idx + 1] ELSE None

get_file_id_from_url(url) ==
    LET parts == Parts(url)
    IN  IF Contains(parts, Marker)
        THEN LET idx == IndexOf(parts, Marker)
             IN  IF idx + 1 <= Len(parts) THEN parts[idx + 1] ELSE None
        ELSE None

\* "not file_id": None and the empty string
NoFileId(file_id) == file_id = None \/ file_id = << >>

\* the deployment of src/app.py refuses to start without a token
Tokens == IF impl = "api" THEN {TRUE, FALSE} ELSE {TRUE}

MetadataRequest(file_id) == [to |-> "metadata", file_id |-> file_id, authorized |-> TRUE]
DownloadRequest == [to |-> "download", file_id |-> None, authorized |-> FALSE]

Returned(call, result) == [call EXCEPT !.pc = "done", !.result = result]

\* download_file_from_hubspot up to its first network request
FetcherCall ==
    /\ fetcher.pc = "idle"
    /\ \E url \in Urls, token \in Tokens :
        LET call == [pc |-> "called", url |-> url, token |-> token, file_id |-> <<"unset">>,
                     requests |-> << >>, replies |-> << >>, result |-> "pending"]
        IN  fetcher' =
                IF ~token THEN Returned(call, "None")
                ELSE IF ~Parses(url) THEN Returned(call, "raised")
                ELSE LET file_id == get_file_id_from_url(url)
                         found == [call EXCEPT !.file_id = file_id]
                     IN  IF NoFileId(file_id) THEN Returned(found, "None")
                         ELSE [found EXCEPT !.pc = "metadata",
                                            !.requests = <<MetadataRequest(file_id)>>]
    /\ UNCHANGED <<reader, page, impl, files, selections, uploaded_files, uploadLog, budget,
                   pc, req, tbl, ci, ri, count, total_count, successful_downloads, errors,
                   events, response, fetchLog, pending, fs_dirs, fs_files>>

MetadataReplies ==
    {"200 with url", "200 without url", "200 not json", "404", "timeout", "connection error"}

\* the variant that asks for the metadata once more after a failed answer
MetadataRetried(reply) ==
    /\ fetcher.pc = "metadata"
    /\ LET heard == [fetcher EXCEPT !.replies = Append(@, reply)]
       IN  fetcher' =
            IF reply = "200 with url"
            THEN [heard EXCEPT !.pc = "download", !.requests = @ \o <<DownloadRequest>>]
            ELSE IF Len(fetcher.requests) < 2
            THEN [heard EXCEPT !.requests = @ \o <<MetadataRequest(fetcher.file_id)>>]
            ELSE Returned(heard, "None")

\* the answer to requests.get(api_url, headers=headers, timeout=30)
MetadataAnswered(reply) ==
    /\ fetcher.pc = "metadata"
    /\ LET heard == [fetcher EXCEPT !.replies = Append(@, reply)]
       IN  fetcher' =
            IF reply = "200 with url"
            THEN [heard EXCEPT !.pc = "download", !.requests = @ \o <<DownloadRequest>>]
            ELSE Returned(heard, "None")

FetcherMetadataReply ==
    /\ \E reply \in MetadataReplies : MetadataAnswered(reply)
    /\ UNCHANGED <<reader, page, impl, files, selections, uploaded_files, uploadLog, budget,
                   pc, req, tbl, ci, ri, count, total_count, successful_downloads, errors,
                   events, response, fetchLog, pending, fs_dirs, fs_files>>

DownloadReplies == {"200", "403", "timeout", "connection error"}

\* the answer to requests.get(signed_download_url, timeout=30)
FetcherDownloadReply ==
    /\ fetcher.pc = "download"
    /\ \E reply \in DownloadReplies :
        fetcher' = Returned([fetcher EXCEPT !.replies = Append(@, reply)],
                            IF reply = "200" THEN "image" ELSE "None")
    /\ UNCHANGED <<reader, page, impl, files, selections, uploaded_files, uploadLog, budget,
                   pc, req, tbl, ci, ri, count, total_count, successful_downloads, errors,
                   events, response, fetchLog, pending, fs_dirs, fs_files>>

InitFetcher ==
    /\ impl \in {"api", "app"}
    /\ files = {}
    /\ uploaded_files = << >>
    /\ uploadLog = << >>
    /\ selections = {}
    /\ budget = 0
    /\ InitRun

NextFetcher ==
    \/ FetcherCall
    \/ FetcherMetadataReply
    \/ FetcherDownloadReply

SpecFetcher == InitFetcher /\ [][NextFetcher]_vars

\* the call computed a resource id
Extracted == fetcher.pc # "idle" /\ fetcher.file_id # <<"unset">>

MarkerAt(parts) == {i \in 1..Len(parts) : parts[i] = Marker}

\* C11 as stated: the result is the segment after the marker, and it is None exactly when
\* the marker is absent from the path or is the last segment of the path
C11_Original ==
    Extracted =>
        LET parts == Parts(fetcher.url)
        IN  /\ fetcher.file_id = None
                <=> (MarkerAt(parts) = {} \/ parts[Len(parts)] = Marker)
            /\ fetcher.file_id # None
                => \E i \in MarkerAt(parts) : i < Len(parts) /\ fetcher.file_id = parts[i + 1]

\* C11: get_file_id_from_url returns the segment that follows the first occurrence of the
\* marker segment, and None exactly when the marker is absent or its first occurrence is
\* the last segment of the path
C11_FirstMarker ==
    Extracted =>
        LET parts == Parts(fetcher.url)
            at == MarkerAt(parts)
        IN  /\ fetcher.file_id = None
                <=> (at = {} \/ \A i \in at : i = Len(parts))
            /\ fetcher.file_id # None
                => \E i \in at : /\ \A j \in at : i <= j
                                 /\ i < Len(parts)
                                 /\ fetcher.file_id = parts[i + 1]

\* the marker occurs twice and an id is returned
C11_Witness ==
    /\ Extracted
    /\ Parts(fetcher.url) = <<Marker, Marker>>
    /\ fetcher.file_id = Marker

Called == fetcher.pc # "idle"

RequestsTo(kind) == {i \in 1..Len(fetcher.requests) : fetcher.requests[i].to = kind}

\* C12: one call issues at most one authorized metadata request and at most one
\* unauthorized download request, the download request only after the metadata request
\* was answered 200 with a url; no request at all without a token or without a resource
\* id; and every other answer, timeout or network exception ends the call with the
\* failure result instead of an exception
C12_FetcherRequests ==
    Called =>
        /\ Cardinality(RequestsTo("metadata")) <= 1
        /\ Cardinality(RequestsTo("download")) <= 1
        /\ \A i \in RequestsTo("metadata") : fetcher.requests[i].authorized
        /\ \A i \in RequestsTo("download") :
            /\ ~fetcher.requests[i].authorized
            /\ i = 2 /\ 1 \in RequestsTo("metadata")
            /\ Len(fetcher.replies) >= 1 /\ fetcher.replies[1] = "200 with url"
        /\ (~fetcher.token \/ ~Parses(fetcher.url) \/ NoFileId(fetcher.file_id))
            => fetcher.requests = << >>
        /\ Len(fetcher.replies) <= Len(fetcher.requests)
        /\ fetcher.pc = "done" =>
            /\ fetcher.result \in {"image", "None", "raised"}
            /\ fetcher.result = "raised" => fetcher.replies = << >>
            /\ fetcher.result = "image" <=> fetcher.replies = <<"200 with url", "200">>

\* the download request timed out after a good metadata answer
C12_Witness ==
    /\ fetcher.pc = "done"
    /\ fetcher.result = "None"
    /\ Len(fetcher.requests) = 2
    /\ fetcher.replies = <<"200 with url", "timeout">>

(* ------------------------------------------------------------------ *)
(* Progress of a run                                                    *)
(* ------------------------------------------------------------------ *)
\* the steps of the handler (or of the generator the client keeps reading)
RunStep ==
    \/ ColumnAbsent
    \/ ColumnEnter
    \/ ColumnLeave
    \/ RowSkip
    \/ RowFetch
    \/ FetchReturn
    \/ Finish

\* one uploaded table, one request to come, on selections of two columns
InitFair ==
    /\ impl \in {"api", "app"}
    /\ \E f \in TableFiles :
        /\ files = {f}
        /\ uploaded_files = Stored(<< >>, f)
        /\ uploadLog = <<[file |-> f, status |-> UploadStatus(f)]>>
    /\ selections = {<<A, B>>, <<Z, A>>}
    /\ budget = 1
    /\ InitRun

\* the handler keeps running, and each request of the fetcher ends within its timeout
SpecFair == InitFair /\ [][Next]_vars /\ WF_vars(RunStep)

Running == ~Idle

FailedOutcomes == {"none", "raise", "unwritable"}

\* C13: a run that passed its preconditions eventually finishes, and a failed cell is
\* recorded as one more error while the iteration moves on to the next cell
C13_Terminates ==
    /\ Running ~> Finished
    /\ [][(pc = "fetch" /\ pc' # "fetch") =>
            /\ pc' = "row" /\ ri' = ri + 1
            /\ fetchLog'[Len(fetchLog')].outcome \in FailedOutcomes
                => Len(errors') = Len(errors) + 1]_vars

\* a finished run to disk in which one cell could not be written and one raised
C13_Witness ==
    /\ Finished /\ RunOf("download")
    /\ Len(fetchLog) = 2
    /\ fetchLog[1].outcome = "unwritable"
    /\ fetchLog[2].outcome = "raise"
    /\ response.kind = "failure"

(* ------------------------------------------------------------------ *)
(* A request reading the registry while /upload runs in another thread  *)
(* ------------------------------------------------------------------ *)
Unset == <<"unset">>

\* /get-images exists in src/api/index.py only
ReaderEndpoints == IF impl = "api" THEN {"download", "get-images"} ELSE {"download"}

\* ghost: how many uploads had been handled when the statement ran
Stamp == Len(uploadLog)

\* `if filename not in uploaded_files`
ReaderCheck ==
    /\ reader.pc = "idle"
    /\ \E endpoint \in ReaderEndpoints,
          filename \in DOMAIN uploaded_files \cup {<<"q", ".", "csv">>} :
        reader' = [pc |-> IF filename \in DOMAIN uploaded_files THEN "checked" ELSE "rejected",
                   endpoint |-> endpoint, filename |-> filename, file_data |-> Unset,
                   rows |-> Unset, columns |-> Unset, dataframe |-> Unset,
                   at |-> <<Stamp>>]
    /\ UNCHANGED <<fetcher, page, impl, files, selections, uploaded_files, uploadLog, budget,
                   pc, req, tbl, ci, ri, count, total_count, successful_downloads, errors,
                   events, response, fetchLog, pending, fs_dirs, fs_files>>

\* `file_data = uploaded_files[filename]`: a KeyError ends the request with status 500
ReaderEntry ==
    /\ reader.pc = "checked"
    /\ reader' =
        IF reader.filename \in DOMAIN uploaded_files
        THEN [reader EXCEPT !.pc = "entry", !.file_data = uploaded_files[reader.filename],
                            !.at = Append(@, Stamp)]
        ELSE [reader EXCEPT !.pc = "failed", !.at = Append(@, Stamp)]
    /\ UNCHANGED <<fetcher, page, impl, files, selections, uploaded_files, uploadLog, budget,
                   pc, req, tbl, ci, ri, count, total_count, successful_downloads, errors,
                   events, response, fetchLog, pending, fs_dirs, fs_files>>

\* `rows = file_data['rows']` / `df = file_data['dataframe']`
ReaderRows ==
    /\ reader.pc = "entry"
    /\ reader' =
        IF impl = "api"
        THEN [reader EXCEPT !.pc = "rows", !.rows = reader.file_data.rows,
                            !.at = Append(@, Stamp)]
        ELSE [reader EXCEPT !.pc = "done", !.dataframe = reader.file_data.dataframe,
                            !.at = Append(@, Stamp)]
    /\ UNCHANGED <<fetcher, page, impl, files, selections, uploaded_files, uploadLog, budget,
                   pc, req, tbl, ci, ri, count, total_count, successful_downloads, errors,
                   events, response, fetchLog, pending, fs_dirs, fs_files>>

\* the variant that goes back to the registry for the columns
ColumnsReadAgain == uploaded_files[reader.filename].columns

\* file_data['columns']
ColumnsRead == reader.file_data.columns

\* `columns = file_data['columns']`
ReaderColumns ==
    /\ reader.pc = "rows"
    /\ reader' = [reader EXCEPT !.pc = "done", !.columns = ColumnsRead,
                                !.at = Append(@, Stamp)]
    /\ UNCHANGED <<fetcher, page, impl, files, selections, uploaded_files, uploadLog, budget,
                   pc, req, tbl, ci, ri, count, total_count, successful_downloads, errors,
                   events, response, fetchLog, pending, fs_dirs, fs_files>>

\* two revisions of one file name, and a file the upload refuses
RaceFiles ==
    {[name |-> TableName, content |-> Rows(<<<<A>>, <<U>>>>)],
     [name |-> TableName, content |-> Rows(<<<<B>>, <<PaddedU>>, <<U>>>>)],
     [name |-> TableName, content |-> Undecodable]}

InitRace ==
    /\ impl \in {"api", "app"}
    /\ files = RaceFiles
    /\ uploaded_files = << >>
    /\ uploadLog = << >>
    /\ selections = {}
    /\ budget = MaxRequests
    /\ InitRun

NextRace ==
    \/ UploadFile
    \/ ReaderCheck
    \/ ReaderEntry
    \/ ReaderRows
    \/ ReaderColumns

SpecRace == InitRace /\ [][NextRace]_vars

\* the handler holds the table of upload i
ReaderHolds(i) ==
    LET f == uploadLog[i].file
    IN  /\ RegistryKey(f) = reader.filename
        /\ IF impl = "api"
           THEN /\ reader.rows = f.content.rows
                /\ reader.columns = HeaderColumns(f.content.rows[1])
           ELSE HoldsTableOf([dataframe |-> reader.dataframe], f)

\* C14: whatever uploads are interleaved with a request, the rows and the columns the
\* request works on are those of one accepted upload of its file name, and the registry
\* read after the passed membership check does not fail
C14_OneRevision ==
    /\ reader.pc # "failed"
    /\ reader.pc = "done" => \E i \in Accepted : ReaderHolds(i)

\* an upload of another revision was handled between the read of the rows and the read
\* of the columns
C14_Witness ==
    /\ reader.pc = "done" /\ impl = "api"
    /\ reader.at[3] < reader.at[4]
    /\ uploaded_files[reader.filename].columns # reader.columns
    /\ reader.at[1] < reader.at[2]

(* ------------------------------------------------------------------ *)
(* /get-images (src/api/index.py), called page after page by a client   *)
(* ------------------------------------------------------------------ *)
MaxCells == 3
MaxBatch == 2

\* a client that follows the answers: the first page starts at 0, every later page at
\* the next_index of the answer before, as long as has_more was true
PageStart ==
    IF page.pc = "idle" THEN {0}
    ELSE IF page.pc = "answered" /\ page.has_more THEN {page.next_index}
    ELSE {}

PageBatches == IF page.pc = "idle" THEN 1..MaxBatch ELSE {page.batch_size}
PageColumns == IF page.pc = "idle" THEN {A, Z} ELSE {page.column}
PageNumber == IF page.pc = "idle" THEN 1 ELSE page.number + 1
PageFetched == IF page.pc = "idle" THEN << >> ELSE page.fetched

\* the request up to the loop: parameters, registry, column
PageBegin ==
    /\ \E start_index \in PageStart, batch_size \in PageBatches, column \in PageColumns,
          filename \in DOMAIN uploaded_files :
        LET t == TableOf(uploaded_files[filename])
            asked == [pc |-> "loop", filename |-> filename, column |-> column,
                      start_index |-> start_index, batch_size |-> batch_size,
                      table |-> t, r |-> 1, count |-> 0, images |-> << >>,
                      number |-> PageNumber, fetched |-> PageFetched,
                      status |-> 0, has_more |-> FALSE, next_index |-> 0]
        IN  page' = IF ColumnPresent(t, column) THEN asked
                    ELSE [asked EXCEPT !.pc = "refused", !.status = 400]
    /\ UNCHANGED <<fetcher, reader, impl, files, selections, uploaded_files, uploadLog, budget,
                   pc, req, tbl, ci, ri, count, total_count, successful_downloads, errors,
                   events, response, fetchLog, pending, fs_dirs, fs_files>>

page_cells == ColumnCells(page.table, page.column)

InPageLoop == page.pc = "loop" /\ page.r <= Len(page_cells)

\* `continue` on a blank cell
PageSkip ==
    /\ InPageLoop
    /\ ~Qualifies(page_cells[page.r].cell)
    /\ page' = [page EXCEPT !.r = @ + 1]
    /\ UNCHANGED <<fetcher, reader, impl, files, selections, uploaded_files, uploadLog, budget,
                   pc, req, tbl, ci, ri, count, total_count, successful_downloads, errors,
                   events, response, fetchLog, pending, fs_dirs, fs_files>>

\* `if count < start_index: count += 1; continue`
PagePass ==
    /\ InPageLoop
    /\ Qualifies(page_cells[page.r].cell)
    /\ page.count < page.start_index
    /\ page' = [page EXCEPT !.r = @ + 1, !.count = @ + 1]
    /\ UNCHANGED <<fetcher, reader, impl, files, selections, uploaded_files, uploadLog, budget,
                   pc, req, tbl, ci, ri, count, total_count, successful_downloads, errors,
                   events, response, fetchLog, pending, fs_dirs, fs_files>>

\* `if len(images) >= batch_size: break`
PageFull == Len(page.images) >= page.batch_size

\* the fetcher is called on the cell and its result handled; an exception of the
\* fetcher ends the request with status 500
PageFetch ==
    /\ InPageLoop
    /\ Qualifies(page_cells[page.r].cell)
    /\ page.count >= page.start_index
    /\ ~PageFull
    /\ \E outcome \in {"image", "none", "raise"} :
        LET url == Strip(page_cells[page.r].cell)
            called == [page EXCEPT !.fetched = Append(@, [number |-> page.number,
                                                          row |-> page_cells[page.r].row,
                                                          outcome |-> outcome])]
        IN  page' =
                IF outcome = "raise" THEN [called EXCEPT !.pc = "failed", !.status = 500]
                ELSE [called EXCEPT
                        !.images = IF outcome = "image"
                                   THEN Append(@, ImageName(page.column, page.count + 1, url))
                                   ELSE @,
                        !.count = @ + 1, !.r = @ + 1]
    /\ UNCHANGED <<fetcher, reader, impl, files, selections, uploaded_files, uploadLog, budget,
                   pc, req, tbl, ci, ri, count, total_count, successful_downloads, errors,
                   events, response, fetchLog, pending, fs_dirs, fs_files>>

\* the number of qualifying cells of the column, as the answer computes it
PageTotal == Cardinality({k \in 1..Len(page_cells) : Qualifies(page_cells[k].cell)})

\* the loop ended or broke off: the answer
PageAnswer ==
    /\ page.pc = "loop"
    /\ \/ page.r > Len(page_cells)
       \/ /\ InPageLoop
          /\ Qualifies(page_cells[page.r].cell)
          /\ page.count >= page.start_index
          /\ PageFull
    /\ page' = [page EXCEPT !.pc = "answered", !.status = 200,
                            !.has_more = page.count < PageTotal,
                            !.next_index = page.start_index + page.batch_size]
    /\ UNCHANGED <<fetcher, reader, impl, files, selections, uploaded_files, uploadLog, budget,
                   pc, req, tbl, ci, ri, count, total_count, successful_downloads, errors,
                   events, response, fetchLog, pending, fs_dirs, fs_files>>

PageFiles ==
    {[name |-> TableName, content |-> Rows(<<<<A>>>> \o data)] :
        data \in SeqsUpTo({<<U>>, <<PaddedU>>, <<Blank>>}, MaxCells)}

InitPages ==
    /\ impl = "api"
    /\ \E f \in PageFiles :
        /\ files = {f}
        /\ uploaded_files = Stored(<< >>, f)
        /\ uploadLog = <<[file |-> f, status |-> UploadStatus(f)]>>
    /\ selections = {}
    /\ budget = 0
    /\ InitRun

NextPages ==
    \/ PageBegin
    \/ PageSkip
    \/ PagePass
    \/ PageFetch
    \/ PageAnswer

SpecPages == InitPages /\ [][NextPages]_vars

\* the client has its last page: an answer with has_more false
PagingEnded == page.pc = "answered" /\ ~page.has_more

FetchesOf(row) == {i \in 1..Len(page.fetched) : page.fetched[i].row = row}

\* C15: paging from 0 with the returned next_index calls the fetcher on every
\* qualifying cell of the column exactly once: no cell is fetched twice, and when the
\* last page is answered every qualifying cell has been fetched
C15_EachCellOnce ==
    page.pc \notin {"idle", "refused"} =>
        /\ \A row \in 1..Len(page.table.data) : Cardinality(FetchesOf(row)) <= 1
        /\ PagingEnded =>
            \A row \in QualifyingRows(page.table, page.column) :
                Cardinality(FetchesOf(row)) = 1

(* ------------------------------------------------------------------ *)
(* Output names of one run                                              *)
(* ------------------------------------------------------------------ *)
\* (sanitized column directory, file name) of every image delivered so far
OutputNames ==
    [k \in 1..Len(DeliveredNames) |-> <<secure_filename(DeliveredColumns[k]), DeliveredNames[k]>>]

\* C16: within one run the (sanitized column directory, file name) pairs of the
\* delivered images are pairwise distinct, whatever columns were selected
C16_DistinctOutputs == Distinct(OutputNames)

(* ------------------------------------------------------------------ *)
(* Events of a streaming run, cell by cell                              *)
(* ------------------------------------------------------------------ *)
\* 'error' events that report a cell, not an absent column
CellErrors ==
    {i \in EventsOf("error") : events[i].message[1] # "Column not found in file"}

OutcomeEvents == EventsOf("image") \cup CellErrors

\* the events from position i up to the next 'progress' or 'complete' event
Window(i) ==
    {j \in (i + 1)..Len(events) :
        \A k \in (i + 1)..j : events[k].type \notin {"progress", "complete"}}

\* C17: in a streaming run every qualifying cell of a present selected column is
\* fetched once; each 'progress' event is followed, before the next 'progress' or the
\* 'complete' event, by exactly one 'image' or per-cell 'error' event (while the fetch
\* is in flight, by none yet); at completion there are as many 'progress' events as
\* 'image' plus per-cell 'error' events; and the counter stays between 0 and the
\* total of the 'start' event
C17_OneOutcomePerCell ==
    RunOf("stream") =>
        /\ \A i \in EventsOf("progress") :
            IF i = Len(events)
            THEN pc = "fetch"
            ELSE /\ i + 1 \in OutcomeEvents
                 /\ Cardinality(Window(i) \cap OutcomeEvents) = 1
        /\ \A j \in OutcomeEvents : events[j - 1].type = "progress"
        /\ Cardinality(EventsOf("progress")) = Len(fetchLog)
        /\ count >= 0 /\ count <= events[1].total
        /\ \A i \in EventsOf("progress") \cup EventsOf("image") :
            events[i].current >= 0 /\ events[i].current <= events[1].total
        /\ Finished =>
            /\ Cardinality(EventsOf("progress"))
                = Cardinality(EventsOf("image")) + Cardinality(CellErrors)
            /\ \A c \in 1..Len(selected_columns), r \in 1..Len(tbl.data) :
                Cardinality({k \in 1..Len(fetchLog) :
                                fetchLog[k].ci = c /\ fetchLog[k].row = r})
                    = IF CellQualifies(tbl, selected_columns[c], r) THEN 1 ELSE 0

\* a finished stream with an image, a failed cell and an absent column in between
C17_Witness ==
    /\ RunOf("stream") /\ Finished
    /\ Cardinality(EventsOf("image")) = 1
    /\ Cardinality(CellErrors) = 1
    /\ EventsOf("error") # CellErrors

====
